---- MODULE Spec2Model ----
(***************************************************************************)
(* The counter store of agentic-protos (src/src/database.rs): a SQLite     *)
(* table `counters` behind a connection pool, read and written by          *)
(* concurrent request tasks.                                               *)
(*                                                                         *)
(* State: the committed table, SQLite's locks (SHARED / RESERVED with a    *)
(* rollback journal, read snapshots and the writer with a write-ahead log; *)
(* the pool of line 47 sets no journal mode, so both are modelled), and    *)
(* per task the position inside get_counter / increment_counter, the       *)
(* locals of the running call and the result of the last finished call.    *)
(* One action per SQL statement a call issues, since the pool lets the     *)
(* statements of different tasks interleave.                               *)
(*                                                                         *)
(* Four specifications share the actions: Spec, the calls on a connected   *)
(* Database by two concurrent tasks; SpecBoot, the starts of the process   *)
(* (Database::connect step by step, src/src/database.rs:37-108) with the   *)
(* calls of one task between them; SpecRpc, the handlers of                *)
(* HelloServiceImpl (src/src/main.rs:65-112) on two concurrent tasks;      *)
(* SpecOverflow, increments at the ends of the range of i32.               *)
(*                                                                         *)
(* The schema lives in migrations/, which is not part of the source tree   *)
(* at hand. What it gives a row the code inserts is modelled from the      *)
(* specification (DefaultStat, DefaultRow, RunningMean, StatsTrigger,      *)
(* InsertedRow): the statistics columns default to 0, and the trigger that *)
(* maintains them either fires on the INSERT the code issues or on no      *)
(* statement of the code; both schemas are modelled (TriggerEvents). The   *)
(* scripts that exist are a bound (Migrations).                            *)
(***************************************************************************)
EXTENDS Integers, FiniteSets, Sequences, TLC

\* ---------------------------------------------------------------- bounds

\* Calls issued in one behaviour (store operations started, over all tasks).
MaxOps == 3

\* Concurrent request tasks (tonic serves each RPC on its own task).
Tasks == {"t1", "t2"}

\* Counter ids the calls are made with: the main counter and one other.
MAIN_COUNTER_ID == "main_counter"
Ids == {MAIN_COUNTER_ID, "test_counter"}

\* Arguments the calls are made with.
Amounts == {-1, 1}
SetValues == {0, 3}

\* Upgrade scripts in the migrations directory, by version, and the times
\* the process is started in one behaviour.
MaxMigration == 2
MaxBoots == 2

NoTask == "none"

\* ------------------------------------------------------------------ state

VARIABLES
    counters,   \* the committed table: id -> row
    locks,      \* SQLite's file locks: who holds SHARED, who holds RESERVED
    pc,         \* per task: where it stands inside its call
    call,       \* per task: the call it is running
    txn,        \* per task: increment_counter's locals current_value, new_value
    last,       \* the result of the call that finished last
    nops,       \* calls started so far
    hist,       \* per id: the account of what was applied to it (history)
    db          \* the database file and the process: what Database::connect did

vars == <<counters, locks, pc, call, txn, last, nops, hist, db>>

\* ------------------------------------------------------ rows and helpers

Max(a, b) == IF a >= b THEN a ELSE b

RECURSIVE Gcd(_, _)
Gcd(a, b) == IF b = 0 THEN a ELSE Gcd(b, a % b)

\* A rational in lowest terms with a positive denominator: the value an f64
\* column holds, kept exact.
Frac(num, den) ==
    LET g == Gcd(den, num % den)
    IN  IF num = 0 THEN [num |-> 0, den |-> 1]
        ELSE [num |-> num \div g, den |-> den \div g]

\* Column default of total_increments, average_increment and highest_value.
DefaultStat == 0

\* What a row holds before any write: the value an absent counter stands for
\* and the defaults of the statistics columns.
DefaultRow ==
    [value |-> 0,
     total_increments |-> DefaultStat,
     average_increment |-> Frac(DefaultStat, 1),
     highest_value |-> DefaultStat]

\* The running mean of n amounts, avg, extended by one more amount.
RunningMean(avg, n, amount) ==
    Frac(avg.num * n + amount * avg.den, avg.den * (n + 1))

\* The statistics trigger, fired by a write of `value` on the row `old`:
\* one more increment counted, the mean extended by the amount the value
\* moved, the highest value raised.
StatsTrigger(old, value) ==
    [value |-> value,
     total_increments |-> old.total_increments + 1,
     average_increment |->
         RunningMean(old.average_increment, old.total_increments,
                     value - old.value),
     highest_value |-> Max(old.highest_value, value)]

\* The events the statistics trigger of the schema can be declared on:
\* "insert", it fires on every row the code inserts; "none", it fires on no
\* statement the code issues (the code issues no UPDATE).
TriggerEvents == {"none", "insert"}

\* Mutant of InsertedRow: no trigger fires, whatever the schema declares.
InsertedRowPlain(value) == [DefaultRow EXCEPT !.value = value]

\* Mutant of InsertedRow: the schema counts the inserted row as one
\* increment when its value is away from the default.
InsertedRowCountsChange(value) ==
    [DefaultRow EXCEPT !.value = value,
                       !.total_increments =
                           IF value = 0 THEN DefaultStat ELSE DefaultStat + 1]

\* The row an INSERT leaves that names id and value and no statistics
\* column: the value and the column defaults for the statistics, and on that
\* row the trigger, when the schema declares it on INSERT.
InsertedRow(value) ==
    IF db.trigger = "insert"
    THEN StatsTrigger(DefaultRow, value)
    ELSE [DefaultRow EXCEPT !.value = value]

\* ------------------------------------------------------- SQL statements

\* SELECT value FROM counters WHERE id = ? (fetch_optional): the row's value,
\* or no row.
SelectValue(tbl, id) ==
    IF id \in DOMAIN tbl
    THEN [found |-> TRUE, value |-> tbl[id].value]
    ELSE [found |-> FALSE, value |-> 0]

\* Mutant of InsertOrReplace: INSERT OR IGNORE, an existing row is kept.
InsertOrIgnore(tbl, id, value) ==
    [x \in DOMAIN tbl \cup {id} |->
        IF x = id /\ id \notin DOMAIN tbl
        THEN InsertedRow(value)
        ELSE tbl[x]]

\* INSERT OR REPLACE INTO counters (id, value) VALUES (?, ?): a row with the
\* same id is deleted with all its columns, then a row is inserted with the
\* two named columns. The other rows are untouched.
InsertOrReplace(tbl, id, value) ==
    [x \in DOMAIN tbl \cup {id} |->
        IF x = id THEN InsertedRow(value) ELSE tbl[x]]

\* DELETE FROM counters WHERE id = ?: rows_affected and the table left.
RowsAffected(tbl, id) == IF id \in DOMAIN tbl THEN 1 ELSE 0

\* Mutant of DeleteRow: the statement removes nothing.
DeleteRowKeeps(tbl, id) == tbl

\* Mutant of DeleteRow: the WHERE clause is missing.
DeleteRowAll(tbl, id) == [x \in {} |-> tbl[x]]

DeleteRow(tbl, id) == [x \in DOMAIN tbl \ {id} |-> tbl[x]]

\* Mutant of EnsureMainCounter: the row is written whether it exists or not.
EnsureMainCounterResets(tbl) ==
    [x \in DOMAIN tbl \cup {MAIN_COUNTER_ID} |->
        IF x = MAIN_COUNTER_ID THEN InsertedRow(0) ELSE tbl[x]]

\* Mutant of EnsureMainCounter: no row is written.
EnsureMainCounterSkips(tbl) == tbl

\* ensure_main_counter: SELECT 1 ... WHERE id = main, and when there is no
\* such row INSERT INTO counters (id, value, description) VALUES (main, 0, ..).
EnsureMainCounter(tbl) ==
    IF MAIN_COUNTER_ID \in DOMAIN tbl
    THEN tbl
    ELSE [x \in DOMAIN tbl \cup {MAIN_COUNTER_ID} |->
            IF x = MAIN_COUNTER_ID THEN InsertedRow(0) ELSE tbl[x]]

\* get_counter_stats: the four columns of the row, or None.
GetCounterStats(tbl, id) ==
    IF id \in DOMAIN tbl
    THEN [present |-> TRUE,
          value |-> tbl[id].value,
          total_increments |-> tbl[id].total_increments,
          average_increment |-> tbl[id].average_increment,
          highest_value |-> tbl[id].highest_value]
    ELSE [present |-> FALSE,
          value |-> 0,
          total_increments |-> 0,
          average_increment |-> Frac(0, 1),
          highest_value |-> 0]

\* What get_counter_stats returns, as a sequence: the row's four columns for
\* Some, the empty sequence for None.
StatsRows(tbl, id) ==
    IF GetCounterStats(tbl, id).present
    THEN << [value |-> GetCounterStats(tbl, id).value,
             total_increments |-> GetCounterStats(tbl, id).total_increments,
             average_increment |-> GetCounterStats(tbl, id).average_increment,
             highest_value |-> GetCounterStats(tbl, id).highest_value] >>
    ELSE <<>>

\* The place of an id in ORDER BY id (text compared byte by byte):
\* "main_counter" sorts before "test_counter".
IdRank(id) == IF id = MAIN_COUNTER_ID THEN 1 ELSE 2

\* The ids of a set, by falling and by rising rank.
RECURSIVE Descending(_)
Descending(ids) ==
    IF ids = {} THEN <<>>
    ELSE LET top == CHOOSE x \in ids : \A y \in ids : IdRank(y) <= IdRank(x)
         IN  <<top>> \o Descending(ids \ {top})

RECURSIVE Ascending(_)
Ascending(ids) ==
    IF ids = {} THEN <<>>
    ELSE LET low == CHOOSE x \in ids : \A y \in ids : IdRank(x) <= IdRank(y)
         IN  <<low>> \o Ascending(ids \ {low})

\* Mutant of ListCounters: the rows come in falling order of id.
ListCountersDescending(tbl) ==
    [i \in 1 .. Len(Descending(DOMAIN tbl)) |->
        <<Descending(DOMAIN tbl)[i], tbl[Descending(DOMAIN tbl)[i]].value>>]

\* list_counters: SELECT id, value FROM counters ORDER BY id, every row
\* mapped to the pair (id, value).
ListCounters(tbl) ==
    [i \in 1 .. Len(Ascending(DOMAIN tbl)) |->
        <<Ascending(DOMAIN tbl)[i], tbl[Ascending(DOMAIN tbl)[i]].value>>]

\* Mutant of NewValue: the amount alone is stored.
NewValueNoCurrent(current_value, amount) == amount

\* The range of i32, the type of value, amount and new_value.
MaxI32 == 2147483647
MinI32 == -MaxI32 - 1

\* current_value + amount lies outside i32.
Overflows(current_value, amount) ==
    \/ amount > 0 /\ current_value > MaxI32 - amount
    \/ amount < 0 /\ current_value < MinI32 - amount

\* let new_value = current_value + amount;  in i32: the sum, and outside the
\* range the sum wrapped around (two's complement, what a build without
\* overflow checks computes), written so that no step leaves the range.
NewValue(current_value, amount) ==
    IF ~Overflows(current_value, amount) THEN current_value + amount
    ELSE IF amount > 0
         THEN MinI32 + (current_value - (MaxI32 - amount) - 1)
         ELSE MaxI32 - ((MinI32 - amount) - current_value - 1)

\* ------------------------------------------------------------------ state

\* A call: `via` is "db" for a call made on the Database itself and "rpc" for
\* the one a handler of HelloServiceImpl makes.
NoCall == [op |-> "none", id |-> MAIN_COUNTER_ID, arg |-> 0, overlap |-> FALSE,
           via |-> "db"]

\* A result: the call, Ok or Err, the value returned, `at` the statement the
\* call ended at, and `was` the value the id's row held before that statement
\* (0 without a row). `flip` changes with every result, so that a call's
\* return is a change of `last` even when it returns what the call before it
\* returned.
NoRet == [op |-> "none", id |-> MAIN_COUNTER_ID, arg |-> 0, overlap |-> FALSE,
          status |-> "none", value |-> 0, at |-> "idle", was |-> 0,
          rows |-> <<>>, flip |-> FALSE]

NoTxn == [current_value |-> 0, new_value |-> 0]

\* The account of an id: `base` the value the last set-style write gave it
\* (0 without one), `sum` the sum of the amounts of the increments committed
\* since, `pure` whether only increments were applied since the row was
\* created, and while pure `peak` the highest value the counter held since
\* (a counter an increment creates counts as created at 0), `n` the number
\* of the increments committed since the last set-style write. NoHist is the
\* account of an id nothing was applied to: no row, or a row created at 0.
NoHist == [base |-> 0, sum |-> 0, n |-> 0, peak |-> 0, pure |-> TRUE]

\* No connection holds a lock. `shared` are the tasks whose transaction has
\* read (SHARED, in WAL mode a read snapshot), `reserved` the task whose
\* transaction has written, `stale` the tasks whose read snapshot another
\* connection's commit has since left behind (WAL mode only).
NoLocks == [shared |-> {}, reserved |-> NoTask, stale |-> {}]

\* The journal modes the database file can be in: the source sets none, so
\* it is the driver's default, rollback journal ("delete") or write-ahead
\* log ("wal").
JournalModes == {"delete", "wal"}

\* The upgrade scripts, in the order the migrator applies them.
Migrations == 1 .. MaxMigration

\* The database file before the first start of the process, and as a
\* successful Database::connect leaves it: `schema` the scripts executed, in
\* order, `applied` the markers of the bookkeeping table, `phase` where the
\* process stands ("down", "pool" inside connect, "up" serving), `boots` the
\* starts so far, `journal` the journal mode the pool opens the file in,
\* `trigger` the event the schema declares its statistics trigger on.
NoDatabase(journal, trigger) ==
    [phase |-> "down", exists |-> FALSE, schema |-> <<>>, applied |-> {},
     boots |-> 0, journal |-> journal, trigger |-> trigger]

Connected(journal, trigger) ==
    [phase |-> "up", exists |-> TRUE, schema |-> [m \in Migrations |-> m],
     applied |-> Migrations, boots |-> 1, journal |-> journal,
     trigger |-> trigger]

\* The store as Database::connect leaves a new database: migrated, and the
\* main counter ensured.
Init ==
    /\ \E journal \in JournalModes, trigger \in TriggerEvents :
           db = Connected(journal, trigger)
    /\ counters = EnsureMainCounter(<<>>)
    /\ locks = NoLocks
    /\ pc = [p \in Tasks |-> "idle"]
    /\ call = [p \in Tasks |-> NoCall]
    /\ txn = [p \in Tasks |-> NoTxn]
    /\ last = NoRet
    /\ nops = 0
    /\ hist = [id \in Ids |-> NoHist]

\* ------------------------------------------------------ locks and results

\* A statement outside a transaction that writes (set_counter's, the DELETE)
\* commits on its own. With a rollback journal it takes RESERVED and then
\* EXCLUSIVE: no other connection may hold RESERVED or SHARED. With a
\* write-ahead log readers do not block it: no other connection may be
\* writing.
WriteLockFree(p) ==
    /\ locks.reserved = NoTask
    /\ db.journal = "delete" => locks.shared \ {p} = {}

\* The first write inside a transaction: one writer at most, and with a
\* write-ahead log the transaction's read snapshot must still be the latest
\* (SQLITE_BUSY_SNAPSHOT otherwise).
CanReserve(p) ==
    /\ locks.reserved \in {NoTask, p}
    /\ db.journal = "wal" => p \notin locks.stale

\* Mutant of CanCommit: the commit does not wait for the readers.
CanCommitNoWait(p) == TRUE

\* COMMIT: with a rollback journal it takes EXCLUSIVE and no other connection
\* may still hold SHARED; with a write-ahead log readers do not block it.
CanCommit(p) == db.journal = "delete" => locks.shared \ {p} = {}

\* The locks after a commit by p's connection that wrote to the file: the
\* other transactions that have read hold a snapshot that is not the latest
\* any more.
Overtaken(l, p) == [l EXCEPT !.stale = @ \cup (l.shared \ {p})]

\* The locks once p's connection holds none (commit, or the rollback that
\* dropping the transaction does).
Released(p) ==
    [shared |-> locks.shared \ {p},
     reserved |-> IF locks.reserved = p THEN NoTask ELSE locks.reserved,
     stale |-> locks.stale \ {p}]

NewCall(op, id, arg, via) ==
    [op |-> op, id |-> id, arg |-> arg, overlap |-> FALSE, via |-> via]

Result(p, c, status, value) ==
    [op |-> c.op, id |-> c.id, arg |-> c.arg, overlap |-> c.overlap,
     status |-> status, value |-> value, at |-> pc[p],
     was |-> SelectValue(counters, c.id).value, rows |-> <<>>,
     flip |-> ~last.flip]

\* The handlers of HelloServiceImpl answer with the value the store returned,
\* or with Status::internal when it returned an error (map_err and `?`).
Respond(r) ==
    [r EXCEPT !.op = IF r.op = "inc" THEN "IncrementCounter" ELSE "GetCounter",
              !.status = IF r.status = "Err" THEN "Internal" ELSE "Ok"]

\* What the end of a store call leaves in `last`: its result, and for a call
\* a handler made the handler's response, which follows without an await.
Reply(p, c, status, value) ==
    IF c.via = "rpc"
    THEN Respond(Result(p, c, status, value))
    ELSE Result(p, c, status, value)

\* ---------------------------------------------------------------- history

\* The account of id after a set-style write of v (set_counter, also the one
\* get_counter does for an absent id).
HistSet(h, existed, v) ==
    [base |-> v, sum |-> 0, n |-> 0,
     peak |-> IF existed THEN 0 ELSE v,
     pure |-> ~existed]

\* The account of id after a committed increment by amount that stored v.
HistInc(h, existed, amount, v) ==
    [base |-> h.base, sum |-> h.sum + amount, n |-> h.n + 1,
     peak |-> IF ~existed THEN Max(0, v)
              ELSE IF h.pure THEN Max(h.peak, v) ELSE 0,
     pure |-> IF existed THEN h.pure ELSE TRUE]

\* ------------------------------------------------------------ get_counter

\* get_counter, its SELECT: a row found is returned; without one the call
\* goes on to set_counter(id, 0).
GetSelect(p, id, via) ==
    /\ db.phase = "up"
    /\ pc[p] = "idle"
    /\ nops < MaxOps
    /\ nops' = nops + 1
    /\ LET row == SelectValue(counters, id)
           c == NewCall("get", id, 0, via)
       IN  IF row.found
           THEN /\ last' = Reply(p, c, "Ok", row.value)
                /\ UNCHANGED <<pc, call>>
           ELSE /\ pc' = [pc EXCEPT ![p] = "get_insert"]
                /\ call' = [call EXCEPT ![p] = c]
                /\ UNCHANGED last
    /\ UNCHANGED <<counters, locks, txn, hist, db>>

\* get_counter, the None arm: self.set_counter(id, 0) and Ok(0).
GetInsert(p) ==
    /\ pc[p] = "get_insert"
    /\ WriteLockFree(p)
    /\ LET id == call[p].id
       IN  /\ counters' = InsertOrReplace(counters, id, 0)
           /\ hist' = [hist EXCEPT
                         ![id] = HistSet(@, id \in DOMAIN counters, 0)]
    /\ last' = Reply(p, call[p], "Ok", 0)
    /\ locks' = Overtaken(locks, p)
    /\ pc' = [pc EXCEPT ![p] = "idle"]
    /\ call' = [call EXCEPT ![p] = NoCall]
    /\ UNCHANGED <<txn, nops, db>>

\* ------------------------------------------------------------ set_counter

SetCounter(p, id, value) ==
    /\ db.phase = "up"
    /\ pc[p] = "idle"
    /\ nops < MaxOps
    /\ WriteLockFree(p)
    /\ nops' = nops + 1
    /\ counters' = InsertOrReplace(counters, id, value)
    /\ hist' = [hist EXCEPT ![id] = HistSet(@, id \in DOMAIN counters, value)]
    /\ last' = Result(p, NewCall("set", id, value, "db"), "Ok", 0)
    /\ locks' = Overtaken(locks, p)
    /\ UNCHANGED <<pc, call, txn, db>>

\* --------------------------------------------------------- delete_counter

\* Ok(result.rows_affected() > 0), the result's value 1 for true.
DeleteCounter(p, id) ==
    /\ db.phase = "up"
    /\ pc[p] = "idle"
    /\ nops < MaxOps
    /\ WriteLockFree(p)
    /\ nops' = nops + 1
    /\ counters' = DeleteRow(counters, id)
    /\ hist' = [hist EXCEPT ![id] = NoHist]
    /\ last' = Result(p, NewCall("delete", id, 0, "db"), "Ok",
                        IF RowsAffected(counters, id) > 0 THEN 1 ELSE 0)
    /\ locks' = IF RowsAffected(counters, id) > 0
                THEN Overtaken(locks, p)
                ELSE locks
    /\ UNCHANGED <<pc, call, txn, db>>

\* ------------------------------------------- get_counter_stats, list_counters

\* Mutant of Stats: a row is created for an absent id, as get_counter does.
StatsCreates(p, id) ==
    /\ db.phase = "up"
    /\ pc[p] = "idle"
    /\ nops < MaxOps
    /\ nops' = nops + 1
    /\ counters' = IF id \in DOMAIN counters THEN counters
                   ELSE InsertOrReplace(counters, id, 0)
    /\ last' = [Result(p, NewCall("stats", id, 0, "db"), "Ok", 0) EXCEPT
                  !.rows = StatsRows(counters, id)]
    /\ UNCHANGED <<locks, pc, call, txn, hist, db>>

\* get_counter_stats: one SELECT; Some of the four columns, or None.
Stats(p, id) ==
    /\ db.phase = "up"
    /\ pc[p] = "idle"
    /\ nops < MaxOps
    /\ nops' = nops + 1
    /\ last' = [Result(p, NewCall("stats", id, 0, "db"), "Ok", 0) EXCEPT
                  !.rows = StatsRows(counters, id)]
    /\ UNCHANGED <<counters, locks, pc, call, txn, hist, db>>

\* list_counters: one SELECT; the vector of (id, value).
List(p) ==
    /\ db.phase = "up"
    /\ pc[p] = "idle"
    /\ nops < MaxOps
    /\ nops' = nops + 1
    /\ last' = [Result(p, NewCall("list", MAIN_COUNTER_ID, 0, "db"), "Ok", 0)
                  EXCEPT !.rows = ListCounters(counters)]
    /\ UNCHANGED <<counters, locks, pc, call, txn, hist, db>>

\* ------------------------------------------------------ increment_counter

\* The tasks inside increment_counter on id.
Incrementing(id) ==
    {q \in Tasks : pc[q] \in {"inc_select", "inc_write", "inc_commit"}
                   /\ call[q].id = id}

\* let mut tx = self.pool.begin().await?;  (BEGIN, deferred: no lock yet)
IncBegin(p, id, amount, via) ==
    /\ db.phase = "up"
    /\ pc[p] = "idle"
    /\ nops < MaxOps
    /\ nops' = nops + 1
    /\ pc' = [pc EXCEPT ![p] = "inc_select"]
    /\ call' = [q \in Tasks |->
                  IF q = p
                  THEN [NewCall("inc", id, amount, via) EXCEPT
                          !.overlap = Incrementing(id) # {}]
                  ELSE IF q \in Incrementing(id)
                       THEN [call[q] EXCEPT !.overlap = TRUE]
                       ELSE call[q]]
    /\ UNCHANGED <<counters, locks, txn, last, hist, db>>

\* The SELECT inside the transaction (SHARED taken and kept), the row's value
\* or 0, and new_value computed from it.
IncSelect(p) ==
    /\ pc[p] = "inc_select"
    /\ LET row == SelectValue(counters, call[p].id)
           current_value == IF row.found THEN row.value ELSE 0
       IN  txn' = [txn EXCEPT ![p] =
                     [current_value |-> current_value,
                      new_value |-> NewValue(current_value, call[p].arg)]]
    /\ locks' = [locks EXCEPT !.shared = @ \cup {p}]
    /\ pc' = [pc EXCEPT ![p] = "inc_write"]
    /\ UNCHANGED <<counters, call, last, nops, hist, db>>

\* current_value + amount overflows in a build with overflow checks: the
\* addition panics, the task unwinds and the dropped transaction is rolled
\* back. In a build without them IncSelect goes on with the wrapped sum; which
\* of the two a build does is fixed by its profile, so both are steps here.
IncPanic(p) ==
    /\ pc[p] = "inc_select"
    /\ LET row == SelectValue(counters, call[p].id)
       IN  Overflows(IF row.found THEN row.value ELSE 0, call[p].arg)
    /\ last' = Result(p, call[p], "Panic", 0)
    /\ locks' = Released(p)
    /\ pc' = [pc EXCEPT ![p] = "idle"]
    /\ call' = [call EXCEPT ![p] = NoCall]
    /\ txn' = [txn EXCEPT ![p] = NoTxn]
    /\ UNCHANGED <<counters, nops, hist, db>>

\* Mutant of IncWrite: the statement runs outside the transaction and is
\* committed on its own.
IncWriteAutocommit(p) ==
    /\ pc[p] = "inc_write"
    /\ CanReserve(p)
    /\ counters' = InsertOrReplace(counters, call[p].id, txn[p].new_value)
    /\ locks' = [locks EXCEPT !.reserved = p]
    /\ pc' = [pc EXCEPT ![p] = "inc_commit"]
    /\ UNCHANGED <<call, txn, last, nops, hist, db>>

\* The INSERT OR REPLACE inside the transaction: RESERVED taken, the write
\* kept in the connection until COMMIT.
IncWrite(p) ==
    /\ pc[p] = "inc_write"
    /\ CanReserve(p)
    /\ locks' = [locks EXCEPT !.reserved = p]
    /\ pc' = [pc EXCEPT ![p] = "inc_commit"]
    /\ UNCHANGED <<counters, call, txn, last, nops, hist, db>>

\* tx.commit().await?; Ok(new_value). A call made on the Database is over; the
\* handler that made the call goes on to its get_counter_stats, with
\* new_value in hand.
IncCommit(p) ==
    /\ pc[p] = "inc_commit"
    /\ CanCommit(p)
    /\ LET id == call[p].id
           v == txn[p].new_value
       IN  /\ counters' = InsertOrReplace(counters, id, v)
           /\ hist' = [hist EXCEPT
                         ![id] = HistInc(@, id \in DOMAIN counters,
                                         call[p].arg, v)]
           /\ last' = Result(p, call[p], "Ok", v)
    /\ locks' = Overtaken(Released(p), p)
    /\ IF call[p].via = "rpc"
       THEN /\ pc' = [pc EXCEPT ![p] = "rpc_stats"]
            /\ UNCHANGED <<call, txn>>
       ELSE /\ pc' = [pc EXCEPT ![p] = "idle"]
            /\ call' = [call EXCEPT ![p] = NoCall]
            /\ txn' = [txn EXCEPT ![p] = NoTxn]
    /\ UNCHANGED <<nops, db>>

\* ----------------------------------------------------------------- errors

\* Mutant of Fail: increment_counter starts over after a failed statement.
FailRetries(p) ==
    /\ pc[p] \in {"inc_select", "inc_write", "inc_commit"}
    /\ locks' = Released(p)
    /\ pc' = [pc EXCEPT ![p] = "inc_select"]
    /\ txn' = [txn EXCEPT ![p] = NoTxn]
    /\ UNCHANGED <<counters, call, last, nops, hist, db>>

\* The statement a running store call is at fails (I/O error, SQLITE_BUSY):
\* `?` returns the error, and dropping an open transaction rolls it back.
Fail(p) ==
    /\ pc[p] \notin {"idle", "rpc_stats"}
    /\ last' = Reply(p, call[p], "Err", 0)
    /\ locks' = Released(p)
    /\ pc' = [pc EXCEPT ![p] = "idle"]
    /\ call' = [call EXCEPT ![p] = NoCall]
    /\ txn' = [txn EXCEPT ![p] = NoTxn]
    /\ UNCHANGED <<counters, nops, hist, db>>

\* The first statement of a call fails: nothing was done yet.
StorageError(p, op, id, via) ==
    /\ db.phase = "up"
    /\ pc[p] = "idle"
    /\ nops < MaxOps
    /\ nops' = nops + 1
    /\ last' = Reply(p, NewCall(op, id, 0, via), "Err", 0)
    /\ UNCHANGED <<counters, locks, pc, call, txn, hist, db>>

\* ------------------------------------------------------------------- spec

Next ==
    \E p \in Tasks :
        \/ \E id \in Ids : GetSelect(p, id, "db")
        \/ GetInsert(p)
        \/ \E id \in Ids, v \in SetValues : SetCounter(p, id, v)
        \/ \E id \in Ids : DeleteCounter(p, id)
        \/ \E id \in Ids, a \in Amounts : IncBegin(p, id, a, "db")
        \/ IncSelect(p)
        \/ IncWrite(p)
        \/ IncCommit(p)
        \/ Fail(p)
        \/ \E op \in {"get", "set", "inc", "delete"}, id \in Ids :
               StorageError(p, op, id, "db")

Spec == Init /\ [][Next]_vars

\* ------------------------------------------------------ Database::connect

\* The result of connect, in `last`: value 1 when this start created the main
\* counter's row.
ConnectResult(status, created) ==
    [NoRet EXCEPT !.op = "connect", !.status = status,
                  !.value = IF created THEN 1 ELSE 0, !.flip = ~last.flip]

\* The scripts whose marker is not in the bookkeeping table.
Pending(applied) == Migrations \ applied

\* The migrator's step: the pending script of the lowest version is executed
\* and its marker recorded, in one transaction.
ApplyMigration(d) ==
    LET m == CHOOSE x \in Pending(d.applied) :
                 \A y \in Pending(d.applied) : x <= y
    IN  [d EXCEPT !.schema = Append(@, m), !.applied = @ \cup {m}]

\* connect, up to the pool: create_database when the file is absent, then the
\* pool is opened.
BootCreate ==
    /\ db.phase = "down"
    /\ db.boots < MaxBoots
    /\ db' = [db EXCEPT !.phase = "pool", !.exists = TRUE, !.boots = @ + 1]
    /\ UNCHANGED <<counters, locks, pc, call, txn, last, nops, hist>>

\* apply_migrations: migrator.run applies the pending scripts one by one.
BootMigrate ==
    /\ db.phase = "pool"
    /\ Pending(db.applied) # {}
    /\ db' = ApplyMigration(db)
    /\ UNCHANGED <<counters, locks, pc, call, txn, last, nops, hist>>

\* ensure_main_counter, and Ok(db): the process serves.
BootEnsureMain ==
    /\ db.phase = "pool"
    /\ Pending(db.applied) = {}
    /\ counters' = EnsureMainCounter(counters)
    /\ db' = [db EXCEPT !.phase = "up"]
    /\ last' = ConnectResult("Ok", MAIN_COUNTER_ID \notin DOMAIN counters)
    /\ UNCHANGED <<locks, pc, call, txn, nops, hist>>

\* create_database fails (the directory is missing, the disk is full): `?`
\* returns the error from connect and no file is left.
BootCreateFail ==
    /\ db.phase = "down"
    /\ ~db.exists
    /\ db.boots < MaxBoots
    /\ db' = [db EXCEPT !.boots = @ + 1]
    /\ last' = ConnectResult("Err", FALSE)
    /\ UNCHANGED <<counters, locks, pc, call, txn, nops, hist>>

\* A later step of connect fails (opening the pool, apply_migrations,
\* ensure_main_counter): `?` returns the error and the process stops, the
\* file left as it is.
BootFail ==
    /\ db.phase = "pool"
    /\ db' = [db EXCEPT !.phase = "down"]
    /\ last' = ConnectResult("Err", FALSE)
    /\ UNCHANGED <<counters, locks, pc, call, txn, nops, hist>>

\* The process ends while serving: the calls under way are gone, and what an
\* open transaction wrote is rolled back with its connection.
Stop ==
    /\ db.phase = "up"
    /\ db' = [db EXCEPT !.phase = "down"]
    /\ locks' = NoLocks
    /\ pc' = [p \in Tasks |-> "idle"]
    /\ call' = [p \in Tasks |-> NoCall]
    /\ txn' = [p \in Tasks |-> NoTxn]
    /\ UNCHANGED <<counters, last, nops, hist>>

\* The task that calls the store between the starts of the process.
Caller == "t1"

\* No database file yet.
InitBoot ==
    /\ counters = <<>>
    /\ locks = NoLocks
    /\ pc = [p \in Tasks |-> "idle"]
    /\ call = [p \in Tasks |-> NoCall]
    /\ txn = [p \in Tasks |-> NoTxn]
    /\ last = NoRet
    /\ nops = 0
    /\ hist = [id \in Ids |-> NoHist]
    /\ \E journal \in JournalModes, trigger \in TriggerEvents :
           db = NoDatabase(journal, trigger)

NextBoot ==
    \/ BootCreate
    \/ BootCreateFail
    \/ BootMigrate
    \/ BootEnsureMain
    \/ BootFail
    \/ Stop
    \/ \E id \in Ids : GetSelect(Caller, id, "db")
    \/ GetInsert(Caller)
    \/ \E id \in Ids, v \in SetValues : SetCounter(Caller, id, v)
    \/ \E id \in Ids : DeleteCounter(Caller, id)
    \/ \E id \in Ids : Stats(Caller, id)
    \/ List(Caller)
    \/ \E id \in Ids, a \in Amounts : IncBegin(Caller, id, a, "db")
    \/ IncSelect(Caller)
    \/ IncWrite(Caller)
    \/ IncCommit(Caller)
    \/ Fail(Caller)
    \/ \E op \in {"get", "set", "inc", "delete", "stats"}, id \in Ids :
           StorageError(Caller, op, id, "db")
    \/ StorageError(Caller, "list", MAIN_COUNTER_ID, "db")

SpecBoot == InitBoot /\ [][NextBoot]_vars

\* ------------------------------------------------- the ends of i32's range

\* Values set_counter is called with and amounts increment_counter is called
\* with, at and across the two ends of the range.
EdgeValues == {MinI32, MaxI32}
EdgeAmounts == {-2, -1, 1, 2}

\* The calls of one task on counters set to the ends of the range. In the
\* other specifications no value comes near them and IncPanic has no step.
NextOverflow ==
    \/ \E id \in Ids, v \in EdgeValues : SetCounter(Caller, id, v)
    \/ \E id \in Ids, a \in EdgeAmounts : IncBegin(Caller, id, a, "db")
    \/ IncSelect(Caller)
    \/ IncPanic(Caller)
    \/ IncWrite(Caller)
    \/ IncCommit(Caller)
    \/ Fail(Caller)

SpecOverflow == Init /\ [][NextOverflow]_vars

\* --------------------------------------------------------- HelloServiceImpl

\* Mutant of RpcIncrementCounter: the handler increments another counter.
RpcIncrementOther(p, increment_by) ==
    IncBegin(p, "test_counter", increment_by, "rpc")

\* The IncrementCounter handler: self.db.increment_counter(MAIN_COUNTER_ID,
\* increment_by).
RpcIncrementCounter(p, increment_by) ==
    IncBegin(p, MAIN_COUNTER_ID, increment_by, "rpc")

\* The GetCounter handler: self.db.get_counter(MAIN_COUNTER_ID).
RpcGetCounter(p) == GetSelect(p, MAIN_COUNTER_ID, "rpc")

\* The IncrementCounter handler after the increment: get_counter_stats is read
\* for the log line, its error ignored (if let Ok(Some(..))), and the response
\* carries new_value.
RpcStats(p) ==
    /\ pc[p] = "rpc_stats"
    /\ last' = Respond(Result(p, call[p], "Ok", txn[p].new_value))
    /\ pc' = [pc EXCEPT ![p] = "idle"]
    /\ call' = [call EXCEPT ![p] = NoCall]
    /\ txn' = [txn EXCEPT ![p] = NoTxn]
    /\ UNCHANGED <<counters, locks, nops, hist, db>>

\* The server with a store that holds the main counter and one more counter,
\* set to 3 before the server started.
InitRpc ==
    /\ \E journal \in JournalModes, trigger \in TriggerEvents :
           db = Connected(journal, trigger)
    /\ counters = InsertOrReplace(EnsureMainCounter(<<>>), "test_counter", 3)
    /\ locks = NoLocks
    /\ pc = [p \in Tasks |-> "idle"]
    /\ call = [p \in Tasks |-> NoCall]
    /\ txn = [p \in Tasks |-> NoTxn]
    /\ last = NoRet
    /\ nops = 0
    /\ hist = [id \in Ids |->
                 IF id = MAIN_COUNTER_ID THEN NoHist
                 ELSE HistSet(NoHist, FALSE, 3)]

\* The requests the server takes. The main counter's row is there from
\* connect on and no handler deletes it, so get_counter's None arm is not
\* among the steps.
NextRpc ==
    \E p \in Tasks :
        \/ RpcGetCounter(p)
        \/ \E by \in Amounts : RpcIncrementCounter(p, by)
        \/ IncSelect(p)
        \/ IncWrite(p)
        \/ IncCommit(p)
        \/ RpcStats(p)
        \/ Fail(p)
        \/ \E op \in {"get", "inc"} :
               StorageError(p, op, MAIN_COUNTER_ID, "rpc")

SpecRpc == InitRpc /\ [][NextRpc]_vars

\* ----------------------------------------------------------------- claims

\* A call returns in this step.
Returns == last'.flip # last.flip

IncPcs == {"inc_select", "inc_write", "inc_commit"}

\* The rows of the ids other than id are the same in both tables.
SameElsewhere(tbl, tbl2, id) ==
    \A x \in Ids \ {id} :
        /\ (x \in DOMAIN tbl) = (x \in DOMAIN tbl2)
        /\ x \in DOMAIN tbl => tbl2[x] = tbl[x]

\* C1: no increment is lost. Whatever the interleaving, the committed value
\* of every counter is the value its last set-style write gave it (0 without
\* one) plus the sum of the amounts of all increments that returned Ok since.
NoLostUpdate ==
    \A id \in Ids :
        SelectValue(counters, id).value = hist[id].base + hist[id].sum

\* C1 witness: the only two calls made were two overlapping increment(id, 1)
\* on the fresh id, both returned Ok, and the second returned 2.
ConcurrentIncrementsBothCommitted ==
    /\ nops = 2
    /\ last.op = "inc" /\ last.status = "Ok" /\ last.overlap
    /\ last.id = "test_counter" /\ last.arg = 1 /\ last.value = 2
    /\ hist["test_counter"].sum = 2
    /\ counters["test_counter"].value = 2

\* C2: on a counter that started absent or at 0 and took only increments
\* since, every increment returns the running sum of the amounts, and get
\* returns that sum.
IncrementReturnsRunningSum ==
    (/\ last.status = "Ok"
     /\ last.op \in {"inc", "get"}
     /\ hist[last.id].base = 0)
        => last.value = hist[last.id].sum

\* C2 witness: get returned 2 on the fresh id after increments that summed
\* to 2 from an absent counter (amounts are 1 or -1: at least two of them).
GetReadSumOfIncrements ==
    /\ last.op = "get" /\ last.status = "Ok" /\ last.at = "idle"
    /\ last.id = "test_counter" /\ last.value = 2
    /\ hist["test_counter"].base = 0 /\ hist["test_counter"].sum = 2
    /\ hist["test_counter"].pure

\* C3: every successful increment increases total_increments of its counter
\* by exactly one (an absent counter counting 0 before).
IncrementCountsOnce ==
    [][(Returns /\ last'.op = "inc" /\ last'.status = "Ok") =>
          GetCounterStats(counters', last'.id).total_increments
              = GetCounterStats(counters, last'.id).total_increments + 1]_vars

\* C4: increment never partially applies. No step of an increment changes
\* the committed table except the one that returns Ok, and that one stores
\* exactly the returned value in the id's row and touches no other row; an
\* increment that returns Err changed nothing.
IncrementAllOrNothing ==
    [][/\ \A p \in Tasks :
            (pc'[p] # pc[p] /\ (pc[p] \in IncPcs \/ pc'[p] \in IncPcs)) =>
                IF pc'[p] = "idle" /\ last'.status = "Ok"
                THEN /\ call[p].id \in DOMAIN counters'
                     /\ counters'[call[p].id].value = last'.value
                     /\ last'.value = txn[p].current_value + call[p].arg
                     /\ SameElsewhere(counters, counters', call[p].id)
                ELSE counters' = counters
       /\ (Returns /\ last'.op = "inc" /\ last'.status = "Err") =>
              counters' = counters]_vars

\* C4 witness: an increment failed at its COMMIT, after its write was issued.
IncrementFailedAtCommit ==
    /\ last.op = "inc" /\ last.status = "Err" /\ last.at = "inc_commit"
    /\ SelectValue(counters, last.id).value = last.was

HighestIsPeak ==
    \A id \in DOMAIN counters :
        hist[id].pure => counters[id].highest_value = hist[id].peak

\* C9: total_increments of a counter never decreases while the counter
\* exists.
TotalIncrementsMonotone ==
    [][\A id \in DOMAIN counters \cap DOMAIN counters' :
          counters'[id].total_increments >= counters[id].total_increments]_vars

\* C9 witness: the main counter after a set to 3 and increments that summed
\* to 2.
MainSetThenIncremented ==
    /\ MAIN_COUNTER_ID \in DOMAIN counters
    /\ hist[MAIN_COUNTER_ID].base = 3 /\ hist[MAIN_COUNTER_ID].sum = 2
    /\ counters[MAIN_COUNTER_ID].value = 5

\* C10: delete returns true exactly when the id had a row, leaves no row for
\* the id and every other row as it was (so nothing changes when there was
\* none); a get that returns right after a delete of the same id returns 0
\* and leaves the row at 0.
DeleteReturnsExisted ==
    [][/\ (Returns /\ last'.op = "delete" /\ last'.status = "Ok") =>
            /\ (last'.value = 1) = (last'.id \in DOMAIN counters)
            /\ last'.id \notin DOMAIN counters'
            /\ SameElsewhere(counters, counters', last'.id)
            /\ last'.id \notin DOMAIN counters => counters' = counters
       /\ (/\ last.op = "delete" /\ last.status = "Ok"
           /\ Returns
           /\ last'.op = "get" /\ last'.status = "Ok" /\ last'.id = last.id) =>
            /\ last'.value = 0
            /\ last'.id \in DOMAIN counters'
            /\ counters'[last'.id].value = 0]_vars

\* C10 witness: a delete returned true for a row that held a value other
\* than 0, and a get of that id has found no row and is about to recreate it.
GetRunningAfterDelete ==
    \E p \in Tasks :
        /\ pc[p] = "get_insert"
        /\ last.op = "delete" /\ last.status = "Ok" /\ last.value = 1
        /\ last.was # 0
        /\ call[p].id = last.id
        /\ last.id \notin DOMAIN counters

\* The database is migrated and holds the main counter: what a successful
\* connect leaves, whatever was done to the other rows since.
Bootstrapped ==
    /\ db.exists
    /\ db.applied = Migrations
    /\ MAIN_COUNTER_ID \in DOMAIN counters

\* C11: the bootstrap is idempotent. A start of the process against a
\* database that is migrated and holds the main counter changes nothing in
\* it, step by step: the file, the schema, the applied markers and every
\* counter row stay as they were, and the start can go through to the end.
BootstrapIdempotent ==
    [][(db.phase # "up" /\ Bootstrapped) =>
          /\ db'.exists = db.exists
          /\ db'.schema = db.schema
          /\ db'.applied = db.applied
          /\ counters' = counters
          /\ db.phase = "pool" => ENABLED BootEnsureMain]_vars

\* The second start found both counters, the main one away from 0, and
\* created nothing.
SecondBootKeptPopulatedStore ==
    /\ last.op = "connect"
    /\ last.status = "Ok"
    /\ last.value = 0
    /\ db.boots = 2
    /\ DOMAIN counters = Ids
    /\ counters[MAIN_COUNTER_ID].value # 0

\* C12: after a successful connect the main counter's row exists, with value
\* 0 when this start created it, and list_counters names the main counter.
MainCounterAfterConnect ==
    (last.op = "connect" /\ last.status = "Ok") =>
        /\ MAIN_COUNTER_ID \in DOMAIN counters
        /\ last.value = 1 => counters[MAIN_COUNTER_ID].value = 0
        /\ \E i \in DOMAIN ListCounters(counters) :
               ListCounters(counters)[i][1] = MAIN_COUNTER_ID

\* The main counter was deleted, and the second start created it again beside
\* the other counter.
SecondBootCreatedMain ==
    /\ last.op = "connect"
    /\ last.status = "Ok"
    /\ last.value = 1
    /\ db.boots = 2
    /\ DOMAIN counters = Ids

\* C13: get_counter_stats creates nothing. The call changes no row; for an
\* id without a row it returns None and for an id with a row the four stored
\* columns of that row.
StatsCreatesNothing ==
    [][(Returns /\ last'.op = "stats") =>
          /\ counters' = counters
          /\ last'.status = "Ok" =>
                last'.rows = IF last'.id \in DOMAIN counters
                             THEN <<counters[last'.id]>>
                             ELSE <<>>]_vars

\* get_counter_stats returned None for an id without a row, which still has
\* none.
StatsOfAbsentCounter ==
    /\ last.op = "stats"
    /\ last.status = "Ok"
    /\ last.rows = <<>>
    /\ last.id \notin DOMAIN counters
    /\ MAIN_COUNTER_ID \in DOMAIN counters

\* C14: set_counter(id, v) followed by get_counter(id) returns v, whatever the
\* row held before. After a set the row holds v and list_counters holds the
\* pair (id, v), and a get_counter of that id that returns next, having read
\* the row, returns v.
SetThenGet ==
    [][/\ (Returns /\ last'.op = "set" /\ last'.status = "Ok") =>
            /\ SelectValue(counters', last'.id) =
                   [found |-> TRUE, value |-> last'.arg]
            /\ \E i \in DOMAIN ListCounters(counters') :
                   ListCounters(counters')[i] = <<last'.id, last'.arg>>
       /\ (/\ last.op = "set" /\ last.status = "Ok"
           /\ Returns /\ last'.op = "get" /\ last'.status = "Ok"
           /\ last'.id = last.id /\ last'.at = "idle") =>
            last'.value = last.arg]_vars

\* A row that existed was set to 3 and the get_counter after it returned 3.
GetReadWhatSetStored ==
    /\ last.op = "get"
    /\ last.status = "Ok"
    /\ last.value = 3
    /\ hist[last.id].base = 3
    /\ hist[last.id].n = 0
    /\ ~hist[last.id].pure

\* C15: list_counters returns one pair (id, value) for every row of the
\* table, the value the row holds, in rising order of id, and changes
\* nothing.
ListReturnsEveryCounterInOrder ==
    [][(Returns /\ last'.op = "list" /\ last'.status = "Ok") =>
          /\ counters' = counters
          /\ Len(last'.rows) = Cardinality(DOMAIN counters)
          /\ \A id \in DOMAIN counters :
                 \E i \in 1 .. Len(last'.rows) :
                     last'.rows[i] = <<id, counters[id].value>>
          /\ \A i, j \in 1 .. Len(last'.rows) :
                 i < j => IdRank(last'.rows[i][1]) < IdRank(last'.rows[j][1])]_vars

\* list_counters returned two counters with different values.
ListOfTwoCounters ==
    /\ last.op = "list"
    /\ last.status = "Ok"
    /\ Len(last.rows) = 2
    /\ last.rows[1][2] # last.rows[2][2]

\* C16: a storage failure inside a handler becomes an internal-error
\* response of that request alone. A store call a handler made that ends
\* before its commit ends in a response with Status::internal; a call under
\* way never starts over; and the step of an internal-error response leaves
\* every row as it was, starts no store call, and leaves the process serving
\* and the task that answered idle, without locks.
StorageFailureIsInternalError ==
    [][/\ \A p \in Tasks :
            /\ (pc[p] \in IncPcs /\ pc'[p] \notin IncPcs \cup {"rpc_stats"}) =>
                   (Returns /\ last'.status = "Internal"
                            /\ last'.op = "IncrementCounter")
            /\ pc[p] \in {"inc_write", "inc_commit"} => pc'[p] # "inc_select"
       /\ (Returns /\ last'.status = "Internal") =>
            /\ counters' = counters
            /\ nops' = nops \/ (nops' = nops + 1 /\ pc' = pc)
            /\ db'.phase = "up"
            /\ \A p \in Tasks :
                   pc'[p] # pc[p] =>
                       /\ pc'[p] = "idle"
                       /\ call'[p] = NoCall
                       /\ p \notin locks'.shared
                       /\ locks'.reserved # p]_vars

\* An IncrementCounter request failed at its commit after two others had
\* incremented the main counter, which holds what those two left.
IncrementRpcFailedAtCommit ==
    /\ last.op = "IncrementCounter"
    /\ last.status = "Internal"
    /\ last.at = "inc_commit"
    /\ hist[MAIN_COUNTER_ID].n = 2
    /\ counters[MAIN_COUNTER_ID].value = hist[MAIN_COUNTER_ID].sum

\* C17: the handlers only delegate. No step changes a row other than the
\* main counter's; the commit of a handler's increment stores the value
\* increment_counter computes for the main counter, current value plus
\* increment_by; the stats read that follows changes nothing and the response
\* carries the value increment_counter returned; and GetCounter answers with
\* the value of the main counter's row and changes nothing.
FacadeDelegates ==
    [][/\ SameElsewhere(counters, counters', MAIN_COUNTER_ID)
       /\ \A p \in Tasks :
            /\ (pc[p] = "inc_commit" /\ pc'[p] = "rpc_stats") =>
                   /\ call[p].id = MAIN_COUNTER_ID
                   /\ counters' =
                          InsertOrReplace(counters, MAIN_COUNTER_ID,
                                          txn[p].current_value + call[p].arg)
                   /\ last'.value = counters'[MAIN_COUNTER_ID].value
                   /\ txn'[p].new_value = last'.value
            /\ (pc[p] = "rpc_stats" /\ pc'[p] = "idle") =>
                   /\ counters' = counters
                   /\ last'.op = "IncrementCounter"
                   /\ last'.status = "Ok"
                   /\ last'.value = txn[p].new_value
       /\ (Returns /\ last'.op = "GetCounter" /\ last'.status = "Ok") =>
            /\ counters' = counters
            /\ last'.value = SelectValue(counters, MAIN_COUNTER_ID).value]_vars

\* The second IncrementCounter answered with the value the main counter now
\* holds, the other counter still at 3.
IncrementRpcAnswered ==
    /\ last.op = "IncrementCounter"
    /\ last.status = "Ok"
    /\ hist[MAIN_COUNTER_ID].n = 2
    /\ last.value = counters[MAIN_COUNTER_ID].value
    /\ last.value # 0
    /\ counters["test_counter"].value = 3

\* C18: average_increment is the mean of the increment amounts. For a
\* counter created at 0 to which only increments were applied, the stored
\* average is the sum of their amounts divided by their number, and
\* total_increments is that number.
AverageIsMeanOfAmounts ==
    \A id \in DOMAIN counters :
        (hist[id].pure /\ hist[id].base = 0 /\ hist[id].n > 0) =>
            /\ counters[id].total_increments = hist[id].n
            /\ counters[id].average_increment = Frac(hist[id].sum, hist[id].n)

\* C19: get_counter never changes a counter that has a committed value. The
\* set_counter(id, 0) of get_counter's None arm only ever writes over no row
\* or over the value 0.
GetCreateOverwritesNothing ==
    (last.op = "get" /\ last.status = "Ok" /\ last.at = "get_insert") =>
        last.was = 0

\* C20: a call on one id leaves every other row alone. A step that changes
\* the table is the step of a call that returns, and the rows of all ids
\* other than that call's are the same before and after.
OtherCountersUntouched ==
    [][counters' # counters =>
          (Returns /\ SameElsewhere(counters, counters', last'.id))]_vars

\* delete_counter removed the main counter's row and the other counter still
\* holds the 3 it was set to.
DeletedBesideAnotherCounter ==
    /\ last.op = "delete"
    /\ last.value = 1
    /\ last.id = MAIN_COUNTER_ID
    /\ "test_counter" \in DOMAIN counters
    /\ counters["test_counter"].value = 3

\* C21: increment_counter stores and returns the mathematical sum. An
\* increment that returned Ok did not leave the range of i32: the value it
\* returned and committed is the value the row held plus the amount.
IncrementNeverWraps ==
    (last.op = "inc" /\ last.status = "Ok") =>
        /\ ~Overflows(last.was, last.arg)
        /\ last.value = last.was + last.arg

====
